---------------------------- MODULE Spec2Model ----------------------------
(***************************************************************************)
(* Signup / email-confirmation flow of app-athletyq.                       *)
(*                                                                         *)
(*   src/services/auth/auth.service.ts   signUp, createProfile             *)
(*   src/app/api/auth/confirm/route.ts   GET confirm, POST create-profile, *)
(*                                       POST signup (email/password only) *)
(*   src/unnamed/part_000                POST signup (with profile fields) *)
(*   src/unnamed/part_001                ConfirmPage (client orchestrator) *)
(*                                                                         *)
(* Strings that the code only tests for truthiness or equality are TLA+    *)
(* strings, "" standing for a missing (undefined, null or empty) value.    *)
(* Emails and passwords are sequences of characters, <<>> when missing.    *)
(***************************************************************************)
EXTENDS Integers, Sequences, FiniteSets, TLC

VARIABLES
    config,     \* which environment variables are set
    profiles,   \* the rows of the "profiles" table, in insertion order
    calls,      \* server-side invocations of profile creation, by slot
    accounts,   \* the accounts of the authentication provider
    signup,     \* the invocation of a signup handler
    url,        \* ConfirmPage: the fragment and query parameters of its URL
    mounted,    \* ConfirmPage is mounted
    status,     \* ConfirmPage state: "loading", "success" or "error"
    errorMessage,   \* ConfirmPage state
    redirectIn, \* ConfirmPage state: the seconds shown
    runs,       \* the executions of handleConfirmation
    timers,     \* the countdown effect's timeout and interval, and startedAt
    now,        \* Date.now(), in ms since the page was opened
    redirects   \* the calls of router.replace("/login"), by origin

signupVars == <<accounts, signup>>

pageVars == <<url, mounted, status, errorMessage, redirectIn, runs, timers, now,
              redirects>>

vars == <<config, profiles, calls, signupVars, pageVars>>

-----------------------------------------------------------------------------
(* Bounds of the model *)

\* concurrent profile-creation invocations
MaxCalls == 2

\* longest email address a signup request carries
MaxEmailLen == 5

\* longest password a signup request carries
MaxPwLen == 7

\* executions of the confirmation effect (mount and re-executions)
MaxRuns == 2

RunIds == 1..MaxRuns

\* the clock stops after this many steps
MaxTicks == 20

\* uses of the "Continue to login" button
MaxClicks == 1

CallIds == 1..MaxCalls

-----------------------------------------------------------------------------
(* Values *)

Users == {"u1", "u2"}

\* bearer tokens: "t_u" is a token the provider issued for user u
TokenOf(u) == IF u = "u1" THEN "t_u1" ELSE "t_u2"

\* auth.getUser(token) at the provider: the token's user, "" when rejected
TokenUser(token) ==
    IF token = "t_u1" THEN "u1" ELSE IF token = "t_u2" THEN "u2" ELSE ""

Email1 == <<"a", "@", "a", ".", "a">>
Email2 == <<"a", "a", "@", "a", ".", "a">>

\* location: the Location header of a redirect
NoResp == [status |-> 0, ok |-> FALSE, user_id |-> "", message |-> "", code |-> "",
           location |-> ""]

\* NextResponse.json({ok: true, data: {user_id, message?}}, {status})
OkResp(st, uid, msg) ==
    [status |-> st, ok |-> TRUE, user_id |-> uid, message |-> msg, code |-> "",
     location |-> ""]

\* NextResponse.json({ok: false, error: {message, code?}}, {status})
ErrResp(st, msg, code) ==
    [status |-> st, ok |-> FALSE, user_id |-> "", message |-> msg, code |-> code,
     location |-> ""]

\* the success statuses, the client and server error statuses
SuccessStatuses == {200, 201}

ErrorStatuses == 400..599


-----------------------------------------------------------------------------
(* The "profiles" table of the store *)

Row(uid, fullName, role, email) ==
    [user_id |-> uid, fullName |-> fullName, role |-> role, email |-> email]

RowsFor(table, uid) == {i \in 1..Len(table) : table[i].user_id = uid}

\* store failures other than the uniqueness conflict ("" is no failure)
StoreFaults == {"", "42501"}

\* from("profiles").upsert(row): a row with the same user_id is replaced
StoreInsert_Upsert(table, row, fault) ==
    IF fault # "" THEN [error |-> fault, table |-> table, data |-> ""]
    ELSE IF RowsFor(table, row.user_id) # {}
        THEN [error |-> "",
              table |-> [i \in 1..Len(table) |->
                            IF table[i].user_id = row.user_id THEN row ELSE table[i]],
              data |-> row.user_id]
    ELSE [error |-> "", table |-> Append(table, row), data |-> row.user_id]

\* from("profiles").insert(row).select().single(): user_id is the primary key,
\* a second row for it is refused with code 23505
StoreInsert(table, row, fault) ==
    IF fault # "" THEN [error |-> fault, table |-> table, data |-> ""]
    ELSE IF RowsFor(table, row.user_id) # {}
        THEN [error |-> "23505", table |-> table, data |-> ""]
    ELSE [error |-> "", table |-> Append(table, row), data |-> row.user_id]

\* from("profiles").select("user_id").eq("user_id", uid).maybeSingle():
\* the row when there is exactly one, otherwise no data (the error is ignored)
StoreSelect(table, uid, fault) ==
    fault = "" /\ Cardinality(RowsFor(table, uid)) = 1

-----------------------------------------------------------------------------
(* Invocations *)

ValidRoles == {"athlete", "coach", "organization"}

NoReq == [token |-> "", bodyKind |-> "object", userId |-> "", fullName |-> "",
          role |-> "", email |-> <<>>]

\* the query parameters of GET /api/auth/confirm
NoParams == [token_hash |-> "", type |-> "", redirect_to |-> ""]

\* kind, pc, req, resp: the invocation; authUser: the user auth.getUser (or
\* verifyOtp) gave; ops: its accesses to the profiles table; created: its
\* insert added a row; params, svc: the query parameters of GET confirm and
\* what its call of createProfile returned; log: the calls it made to the
\* provider and the inserts it sent to the store, in order; failed: those
\* that returned an error other than the uniqueness conflict
IdleCall == [kind |-> "idle", pc |-> "idle", req |-> NoReq, authUser |-> "",
             ops |-> {}, created |-> FALSE, resp |-> NoResp,
             params |-> NoParams, svc |-> NoResp, log |-> <<>>, failed |-> {}]

\* the invocation made the external call op, which succeeded or failed
Logged(call, op, succeeded) ==
    [call EXCEPT !.log = Append(@, op),
                 !.failed = IF succeeded THEN @ ELSE @ \cup {op}]

Finish(call, resp) == [call EXCEPT !.pc = "done", !.resp = resp]

\* isSupabaseConfigured()
isSupabaseConfigured(cfg) == cfg.url /\ cfg.anonKey

NotConfiguredMsg ==
    "Supabase is not configured. Set NEXT_PUBLIC_SUPABASE_URL and NEXT_PUBLIC_SUPABASE_PUBLISHABLE_KEY."

ServiceIsConflict_WrongCode(code) == code = "23503"

\* the duplicate-key test of createProfile
ServiceIsConflict(code) == code = "23505"

\* createProfile(userId, userMetadata) up to its insert
ServiceBegin(cfg, req) ==
    LET call == [IdleCall EXCEPT !.kind = "service", !.req = req] IN
    IF ~isSupabaseConfigured(cfg)
        THEN Finish(call, ErrResp(0, NotConfiguredMsg, ""))
    ELSE IF req.fullName = "" \/ req.role = "" \/ req.email = <<>>
        THEN Finish(call, ErrResp(0, "Missing required profile data (fullName, role, or email).", ""))
    ELSE IF req.role \notin ValidRoles
        THEN Finish(call, ErrResp(0, "Invalid role", ""))
    ELSE [call EXCEPT !.pc = "insert"]

\* createProfile: the result of its insert
ServiceAfterInsert(call0, ins) ==
    LET call == [call0 EXCEPT !.ops = @ \cup {"insert"}, !.created = (ins.error = "")] IN
    IF ins.error # ""
        THEN IF ServiceIsConflict(ins.error)
                THEN Finish(call, OkResp(0, call.req.userId, ""))
                ELSE Finish(call, ErrResp(0, "Failed to create profile.", ins.error))
        ELSE Finish(call, OkResp(0, ins.data, ""))

\* POST /api/auth/create-profile up to auth.getUser
RouteBegin(cfg, req) ==
    LET call == [IdleCall EXCEPT !.kind = "route", !.req = req] IN
    IF req.token = ""
        THEN Finish(call, ErrResp(401, "Missing auth token", ""))
    ELSE IF req.bodyKind # "object"
        \* request.json() throws, or destructuring null throws: the catch
        THEN Finish(call, ErrResp(500, "Internal server error", ""))
    ELSE IF req.userId = "" \/ req.fullName = "" \/ req.role = "" \/ req.email = <<>>
        THEN Finish(call, ErrResp(400, "userId, fullName, role, and email are required", ""))
    ELSE IF ~cfg.url \/ ~cfg.serviceKey
        THEN Finish(call, ErrResp(500, "Server configuration error", ""))
    ELSE IF ~cfg.anonKey
        \* createClient(url, undefined) throws: the catch
        THEN Finish(call, ErrResp(500, "Internal server error", ""))
    ELSE [call EXCEPT !.pc = "getUser"]

RouteUserMatches_Unchecked(user, userId) == TRUE

\* the check that the body's userId is the authenticated user
RouteUserMatches(user, userId) == user = userId

\* POST /api/auth/create-profile: the result of auth.getUser(token)
RouteAfterGetUser(call, user) ==
    IF user = ""
        THEN Finish(call, ErrResp(401, "Invalid authentication token", ""))
    ELSE IF ~RouteUserMatches(user, call.req.userId)
        THEN Finish([call EXCEPT !.authUser = user], ErrResp(403, "User ID mismatch", ""))
    ELSE [call EXCEPT !.authUser = user, !.pc = "select"]

\* POST /api/auth/create-profile: the existence check and the role validation
RouteAfterSelect(call, existing) ==
    LET c == [call EXCEPT !.ops = @ \cup {"select"}] IN
    IF existing
        THEN Finish(c, OkResp(200, c.req.userId, "Profile already exists"))
    ELSE IF c.req.role \notin ValidRoles
        THEN Finish(c, ErrResp(400, "Invalid role", ""))
    ELSE [c EXCEPT !.pc = "insert"]

RouteIsConflict_Never(code) == FALSE

RouteIsConflict_AnyError(code) == code # ""

\* the duplicate-key test of the route
RouteIsConflict(code) == code = "23505"

\* POST /api/auth/create-profile: the result of its insert
RouteAfterInsert(call0, ins) ==
    LET call == [call0 EXCEPT !.ops = @ \cup {"insert"}, !.created = (ins.error = "")] IN
    IF ins.error # ""
        THEN IF RouteIsConflict(ins.error)
                THEN Finish(call, OkResp(200, call.req.userId, "Profile already exists"))
                ELSE Finish(call, ErrResp(500, "Failed to create profile", ins.error))
        ELSE Finish(call, OkResp(201, ins.data, ""))

ReqRow(req) == Row(req.userId, req.fullName, req.role, req.email)


-----------------------------------------------------------------------------
(* Signup: POST /api/auth/signup, in its two versions, and signUp() *)

\* password.length < 6
MinPasswordLen == 6

\* \s of the email pattern
IsSpace(ch) == ch = " "

\* [^\s@]+ over the characters e[from..to]
PlainRun(e, from, to) ==
    from <= to /\ \A k \in from..to : ~IsSpace(e[k]) /\ e[k] # "@"

\* /^[^\s@]+@[^\s@]+\.[^\s@]+$/.test(e)
EmailMatches(e) ==
    \E i, j \in 1..Len(e) :
        /\ e[i] = "@" /\ e[j] = "." /\ i < j
        /\ PlainRun(e, 1, i - 1)
        /\ PlainRun(e, i + 1, j - 1)
        /\ PlainRun(e, j + 1, Len(e))

\* the password passes the length validation
PasswordLongEnough(password) == ~(Len(password) < MinPasswordLen)

NoSignupReq == [bodyKind |-> "object", email |-> <<>>, password |-> <<>>,
                fullName |-> "", role |-> ""]

NoSignupResp == [status |-> 0, ok |-> FALSE, message |-> "", userId |-> "",
                 email |-> <<>>, confirmationRequired |-> FALSE]

\* handler: "full" (with fullName and role) or "minimal" (email and password);
\* providerCalls: calls made to supabase.auth.signUp; outcome: what it returned
IdleSignup == [handler |-> "none", pc |-> "idle", req |-> NoSignupReq,
               resp |-> NoSignupResp, providerCalls |-> 0, outcome |-> "none"]

\* NextResponse.json({ok: false, error: {message}}, {status})
SignupErr(st, msg) == [NoSignupResp EXCEPT !.status = st, !.message = msg]

\* NextResponse.json({ok: true, data: {userId, email, confirmationRequired}}, {status: 201})
SignupCreated(uid, email, confirmationRequired) ==
    [status |-> 201, ok |-> TRUE, message |-> "", userId |-> uid, email |-> email,
     confirmationRequired |-> confirmationRequired]

\* the handler's try block up to the call of signUp(): NoSignupResp when every check
\* passes, otherwise the response returned
SignupValidation(handler, req) ==
    IF req.bodyKind = "malformed"
        \* request.json() throws a SyntaxError
        THEN SignupErr(400, "Invalid JSON in request body")
    ELSE IF req.bodyKind = "null"
        \* destructuring null throws a TypeError
        THEN SignupErr(500, "Internal server error")
    ELSE IF handler = "full"
            /\ (req.email = <<>> \/ req.password = <<>> \/ req.fullName = "" \/ req.role = "")
        THEN SignupErr(400, "Email, password, fullName, and role are required")
    ELSE IF handler = "minimal" /\ (req.email = <<>> \/ req.password = <<>>)
        THEN SignupErr(400, "Email and password are required")
    ELSE IF handler = "full" /\ req.role \notin ValidRoles
        THEN SignupErr(400, "Invalid role. Must be one of: athlete, coach, organization")
    ELSE IF ~EmailMatches(req.email)
        THEN SignupErr(400, "Invalid email format")
    ELSE IF ~PasswordLongEnough(req.password)
        THEN SignupErr(400, "Password must be at least 6 characters long")
    ELSE NoSignupResp

\* POST /api/auth/signup up to supabase.auth.signUp
SignupBegin(cfg, handler, req) ==
    LET call == [IdleSignup EXCEPT !.handler = handler, !.req = req]
        invalid == SignupValidation(handler, req)
    IN  IF invalid # NoSignupResp
            THEN [call EXCEPT !.pc = "done", !.resp = invalid]
        ELSE IF ~isSupabaseConfigured(cfg)
            \* signUp() returns an error without status: result.error.status || 500
            THEN [call EXCEPT !.pc = "done", !.resp = SignupErr(500, NotConfiguredMsg)]
        ELSE [call EXCEPT !.pc = "signUp", !.providerCalls = @ + 1]

ConfirmationRequired_Inverted(hasSession) == hasSession

\* confirmationRequired: !authData.session
ConfirmationRequired(hasSession) == ~hasSession

\* what supabase.auth.signUp returns: an error (with a status, or 0 for
\* none), no user, a user without session, a user with session
SignUpOutcomes == {"error", "nouser", "pending", "session"}

ProviderErrorStatuses == {0, 422}

ErrorStatus_Raw(errStatus) == errStatus

\* result.error.status || 500
ErrorStatus(errStatus) == IF errStatus # 0 THEN errStatus ELSE 500

\* signUp() after supabase.auth.signUp, and the handler's response
SignupAfterProvider(call, outcome, errStatus, uid) ==
    LET c == [call EXCEPT !.pc = "done", !.outcome = outcome] IN
    IF outcome = "error"
        THEN [c EXCEPT !.resp =
                SignupErr(ErrorStatus(errStatus), "provider error")]
    ELSE IF outcome = "nouser"
        THEN [c EXCEPT !.resp = SignupErr(500, "Failed to create user account.")]
    ELSE [c EXCEPT !.resp =
            SignupCreated(uid, call.req.email, ConfirmationRequired(outcome = "session"))]

\* an account of the provider: id, email and the metadata bag
Account(uid, email, fullName, role) ==
    [id |-> uid, email |-> email, fullName |-> fullName, role |-> role]

\* the accounts of the two users that take part in profile creation
Population ==
    {Account("u1", Email1, "Ann", "athlete"), Account("u2", Email2, "", "")}

\* the id the provider gives its n-th account
UserIdOf(n) == IF n = 1 THEN "u1" ELSE IF n = 2 THEN "u2" ELSE "u3"

-----------------------------------------------------------------------------
(* ConfirmPage: the client-side confirmation orchestrator *)

REDIRECT_DELAY_MS == 3000

\* the period of the countdown's setInterval, in ms
TickMs == 200

\* Math.ceil(a / b) for a >= 0
CeilDiv(a, b) == (a + b - 1) \div b

Max_NoClamp(a, b) == b

\* Math.max(a, b)
Max(a, b) == IF a >= b THEN a ELSE b

\* one-time token hashes the provider mailed: the hash's user, "" when invalid
HashUser(hash) ==
    IF hash = "h_u1" THEN "u1" ELSE IF hash = "h_u2" THEN "u2" ELSE ""

NoUrl == [access_token |-> "", refresh_token |-> "", type |-> "",
          token_hash |-> "", typeParam |-> ""]

\* run: pc; path taken ("fragment", "query", "none"); provider: what
\* setSession or verifyOtp returned; user: the confirmed user id; fetch: what
\* became of its create-profile request ("rejected", answered by the "route"
\* in slot call, or by a "gateway" in front of it); result: the status it set;
\* thrown, message: the message of the error it threw, and the message it set
IdleRun == [pc |-> "idle", path |-> "", provider |-> "", user |-> "",
            call |-> 0, fetch |-> "", result |-> "", thrown |-> "", message |-> ""]

NoTimers == [timeoutId |-> FALSE, intervalId |-> FALSE, startedAt |-> 0]

\* accessToken && refreshToken && type === "signup"
HasFragmentTokens(u) ==
    u.access_token # "" /\ u.refresh_token # "" /\ u.type = "signup"

HasQueryTokens_HashOnly(u) == u.token_hash # ""

\* tokenHash && typeParam
HasQueryTokens(u) == u.token_hash # "" /\ u.typeParam # ""

ErrorMessageOf_NoFallback(msg) == msg

\* error.message || "Failed to confirm email"
ErrorMessageOf(msg) == IF msg = "" THEN "Failed to confirm email" ELSE msg

Cleanup_IntervalOnly(t) == [t EXCEPT !.intervalId = FALSE]

\* the cleanup the countdown effect returns: clearTimeout and clearInterval
Cleanup(t) == [t EXCEPT !.timeoutId = FALSE, !.intervalId = FALSE, !.startedAt = 0]

\* the countdown effect and its cleanup, run when status changes to `new`
\* (or, with new = status, when router changes)
CountdownEffect(new) ==
    IF new # "success"
        THEN timers' = Cleanup(timers) /\ UNCHANGED redirectIn
        ELSE /\ timers' = [timeoutId |-> TRUE, intervalId |-> TRUE, startedAt |-> now]
             /\ redirectIn' = CeilDiv(REDIRECT_DELAY_MS, 1000)

\* setStatus(new) (and setErrorMessage(msg) in the catch), with the effects
\* the re-render runs; a state update of an unmounted component is dropped
SetStatus(new, msg) ==
    IF ~mounted
        THEN UNCHANGED <<status, errorMessage, redirectIn, timers>>
        ELSE /\ status' = new
             /\ errorMessage' = IF new = "error" THEN ErrorMessageOf(msg) ELSE errorMessage
             /\ IF new = status
                    THEN UNCHANGED <<redirectIn, timers>>
                    ELSE CountdownEffect(new)

\* the catch block of handleConfirmation
RunThrows(r, run, msg) ==
    /\ runs' = [runs EXCEPT ![r] =
                    [run EXCEPT !.pc = "done", !.result = "error", !.thrown = msg,
                                !.message = ErrorMessageOf(msg)]]
    /\ SetStatus("error", msg)

\* the body of the create-profile request of a run, and its headers: the
\* fragment path sends the session's access token, the query path none
ProfileRequest(run, acct) ==
    [token |-> IF run.path = "fragment" THEN TokenOf(run.user) ELSE "",
     bodyKind |-> "object", userId |-> run.user, fullName |-> acct.fullName,
     role |-> acct.role, email |-> acct.email]

\* a response of fetch: its status, and whether its body is JSON
Response(st, isJson) == [status |-> st, json |-> isJson]

\* response.ok
ResponseOk(response) == response.status \in 200..299

\* reading the body of a response that is not OK: response.text() on the
\* fragment path, response.json() (which throws unless the body is JSON) on
\* the query path
BodyReadThrows(path, response) == path = "query" /\ ~response.json

ResponseThrows_WhenNotOk(path, response) == ~ResponseOk(response)

\* what handleConfirmation throws on a response: nothing when it is OK; when
\* not, the body is read and logged
ResponseThrows(path, response) ==
    ~ResponseOk(response) /\ BodyReadThrows(path, response)


-----------------------------------------------------------------------------
(* Requests the clients send *)

Configs == [url : BOOLEAN, anonKey : BOOLEAN, serviceKey : BOOLEAN]

FullConfig == [url |-> TRUE, anonKey |-> TRUE, serviceKey |-> TRUE]

Tokens == {"", "bad", "t_u1", "t_u2"}

\* a request with one of its fields left out
Without(req, field) ==
    [req EXCEPT ![field] = IF field = "email" THEN <<>> ELSE ""]

\* bodies of POST /api/auth/create-profile: JSON objects with all four fields
\* (the role valid or not) or with one field missing, the JSON value null,
\* and text that is not JSON; each with any Authorization header
RouteBodies ==
    LET full == [token : {""}, bodyKind : {"object"}, userId : Users,
                 fullName : {"Ann"}, role : {"athlete", "admin"}, email : {Email1}]
    IN  full
        \cup {Without(r, f) : r \in full, f \in {"userId", "fullName", "role", "email"}}
        \cup {[NoReq EXCEPT !.bodyKind = k] : k \in {"null", "malformed"}}

RouteRequests == {[b EXCEPT !.token = t] : b \in RouteBodies, t \in Tokens}

\* arguments of createProfile(userId, userMetadata)
ServiceRequests ==
    LET full == [token : {""}, bodyKind : {"object"}, userId : Users,
                 fullName : {"Bob"}, role : {"coach", "admin"}, email : {Email2}]
    IN  full \cup {Without(r, f) : r \in full, f \in {"fullName", "role", "email"}}

-----------------------------------------------------------------------------
(* Actions: profile creation *)

\* slots are taken in order
Free(c) == calls[c].pc = "idle" /\ \A d \in CallIds : d < c => calls[d].pc # "idle"

\* a caller invokes createProfile
StartService(c) ==
    /\ Free(c)
    /\ \E req \in ServiceRequests :
         calls' = [calls EXCEPT ![c] = ServiceBegin(config, req)]
    /\ UNCHANGED <<config, profiles, signupVars, pageVars>>

\* createProfile's insert returns
ServiceInsert(c) ==
    /\ calls[c].kind = "service" /\ calls[c].pc = "insert"
    /\ \E fault \in StoreFaults :
         LET ins == StoreInsert(profiles, ReqRow(calls[c].req), fault) IN
         /\ profiles' = ins.table
         /\ calls' = [calls EXCEPT ![c] =
                ServiceAfterInsert(Logged(calls[c], "insert", fault = ""), ins)]
    /\ UNCHANGED <<config, signupVars, pageVars>>

\* a client posts to /api/auth/create-profile
StartRoute(c) ==
    /\ Free(c)
    /\ \E req \in RouteRequests :
         calls' = [calls EXCEPT ![c] = RouteBegin(config, req)]
    /\ UNCHANGED <<config, profiles, signupVars, pageVars>>

\* the provider knows a user only when it holds an account for it
ProviderUser(uid) == IF \E a \in accounts : a.id = uid THEN uid ELSE ""

\* auth.getUser(token) returns: the token's user, or an error
RouteGetUser(c) ==
    /\ calls[c].kind = "route" /\ calls[c].pc = "getUser"
    /\ \E up \in BOOLEAN :
         calls' = [calls EXCEPT ![c] =
            LET user == IF up THEN ProviderUser(TokenUser(calls[c].req.token)) ELSE ""
            IN  RouteAfterGetUser(Logged(calls[c], "getUser", user # ""), user)]
    /\ UNCHANGED <<config, profiles, signupVars, pageVars>>

\* the existence check returns
RouteSelect(c) ==
    /\ calls[c].kind = "route" /\ calls[c].pc = "select"
    /\ \E fault \in StoreFaults :
         calls' = [calls EXCEPT ![c] =
            RouteAfterSelect(calls[c], StoreSelect(profiles, calls[c].req.userId, fault))]
    /\ UNCHANGED <<config, profiles, signupVars, pageVars>>

\* the route's insert returns
RouteInsert(c) ==
    /\ calls[c].kind = "route" /\ calls[c].pc = "insert"
    /\ \E fault \in StoreFaults :
         LET ins == StoreInsert(profiles, ReqRow(calls[c].req), fault) IN
         /\ profiles' = ins.table
         /\ calls' = [calls EXCEPT ![c] =
                RouteAfterInsert(Logged(calls[c], "insert", fault = ""), ins)]
    /\ UNCHANGED <<config, signupVars, pageVars>>

\* ConfirmPage after construction, at url u
PageAt(u) ==
    /\ url = u
    /\ status = "loading"
    /\ errorMessage = ""
    /\ redirectIn = 3
    /\ runs = [r \in RunIds |-> IdleRun]
    /\ timers = NoTimers
    /\ now = 0
    /\ redirects = [timer |-> 0, manual |-> 0]

\* no ConfirmPage is open
NoPage == mounted = FALSE /\ PageAt(NoUrl)

-----------------------------------------------------------------------------
(* Profile creation by any number of callers against one store *)

InitProfile ==
    /\ config = FullConfig
    /\ profiles = <<>>
    /\ calls = [c \in CallIds |-> IdleCall]
    /\ accounts = Population
    /\ signup = IdleSignup
    /\ NoPage

NextProfile ==
    \E c \in CallIds :
        \/ StartService(c)
        \/ ServiceInsert(c)
        \/ StartRoute(c)
        \/ RouteGetUser(c)
        \/ RouteSelect(c)
        \/ RouteInsert(c)

SpecProfile == InitProfile /\ [][NextProfile]_vars


-----------------------------------------------------------------------------
(* Properties of profile creation *)

Done(c) == calls[c].pc = "done"

AllFieldsPresent(req) ==
    req.bodyKind = "object" /\ req.userId # "" /\ req.fullName # ""
        /\ req.role # "" /\ req.email # <<>>

WellFormed(req) == AllFieldsPresent(req) /\ req.role \in ValidRoles

\* a route invocation carries a bearer token the provider accepted for the
\* body's userId; createProfile takes no token
Authorized(call) ==
    call.kind = "route" => call.authUser # "" /\ call.authUser = call.req.userId

\* the invocation answered with a store failure other than the conflict
StoreFailed(call) == call.resp.code \in StoreFaults \ {""}

\* C1: idempotence under repetition. Every completed profile creation with
\* well-formed fields (and, for the route, a valid matching bearer token)
\* whose insert met no store failure other than the uniqueness conflict
\* returns ok:true with its user id, and the table then holds exactly one row
\* for that user id: the first call by inserting it, a repeated call by
\* meeting the existence pre-check or the conflict 23505.
C1_IdempotentRepetition ==
    \A c \in CallIds :
        (Done(c) /\ WellFormed(calls[c].req) /\ Authorized(calls[c])
            /\ ~StoreFailed(calls[c]))
        => /\ calls[c].resp.ok
           /\ calls[c].resp.user_id = calls[c].req.userId
           /\ Cardinality(RowsFor(profiles, calls[c].req.userId)) = 1
           /\ (calls[c].kind = "route" =>
                  calls[c].resp.status = IF calls[c].created THEN 201 ELSE 200)

\* a user id for which createProfile ran twice to its insert, and the route
\* was answered once with 201 and once with "Profile already exists"
C1_Witness ==
    /\ \E c, d \in CallIds :
        /\ c # d /\ Done(c) /\ Done(d)
        /\ calls[c].req.userId = calls[d].req.userId
        /\ calls[c].resp.ok /\ calls[d].resp.ok
        /\ calls[c].created /\ ~calls[d].created
        /\ "insert" \in calls[d].ops
        /\ calls[d].kind = "service"
    /\ Cardinality(RowsFor(profiles, "u1")) = 1

\* C2: create-once under concurrency. However the invocations for one user id
\* interleave between existence check and insert, at most one insert succeeds,
\* no two rows share a user id, and every completed well-formed invocation
\* that met no other store failure returns ok:true with exactly one insert
\* having succeeded for its user id.
C2_CreateOnce ==
    \A u \in Users :
        /\ Cardinality({c \in CallIds : calls[c].created /\ calls[c].req.userId = u}) <= 1
        /\ Cardinality(RowsFor(profiles, u)) <= 1
        /\ \A c \in CallIds :
             (Done(c) /\ calls[c].req.userId = u /\ WellFormed(calls[c].req)
                 /\ Authorized(calls[c]) /\ ~StoreFailed(calls[c]))
             => /\ calls[c].resp.ok
                /\ Cardinality(RowsFor(profiles, u)) = 1

\* two route invocations for one user id both passed the existence check
\* before either inserted; one insert succeeded, the other met the conflict
C2_Witness ==
    \E c, d \in CallIds :
        /\ c # d /\ Done(c) /\ Done(d)
        /\ calls[c].kind = "route" /\ calls[d].kind = "route"
        /\ calls[c].req.userId = calls[d].req.userId
        /\ calls[c].ops = {"select", "insert"} /\ calls[d].ops = {"select", "insert"}
        /\ calls[c].created /\ ~calls[d].created
        /\ calls[c].resp.ok /\ calls[d].resp.ok

\* C5: an invalid role is refused. Every completed profile creation whose
\* role is outside {athlete, coach, organization} (for the route: all four
\* fields present and a valid matching bearer token) returns ok:false and
\* inserts no row, whatever the profiles table holds.
C5_InvalidRoleRefused ==
    \A c \in CallIds :
        (Done(c) /\ calls[c].kind \in {"service", "route"}
            /\ AllFieldsPresent(calls[c].req) /\ calls[c].req.role \notin ValidRoles
            /\ Authorized(calls[c]))
        => ~calls[c].resp.ok /\ ~calls[c].created

\* C6: a valid bearer token of another user is refused with 403 "User ID
\* mismatch" before the profiles table is touched, and the route reads or
\* writes the table for a user id only with a bearer token that the provider
\* accepted as that user's.
C6_UserIdMismatch ==
    \A c \in CallIds :
        calls[c].kind = "route" =>
            /\ (Done(c) /\ calls[c].authUser # ""
                    /\ calls[c].authUser # calls[c].req.userId)
               => /\ calls[c].resp.status = 403
                  /\ ~calls[c].resp.ok
                  /\ calls[c].resp.message = "User ID mismatch"
                  /\ calls[c].ops = {} /\ ~calls[c].created
            /\ (calls[c].ops # {} \/ calls[c].pc \in {"select", "insert"})
               => /\ calls[c].req.token # ""
                  /\ TokenUser(calls[c].req.token) = calls[c].req.userId
                  /\ calls[c].authUser = calls[c].req.userId

\* a request with u1's token for u2's profile was answered 403 while the
\* table held a row
C6_Witness ==
    \E c \in CallIds :
        /\ Done(c) /\ calls[c].kind = "route"
        /\ calls[c].authUser = "u1" /\ calls[c].req.userId = "u2"
        /\ AllFieldsPresent(calls[c].req)
        /\ calls[c].resp.status = 403
        /\ profiles # <<>>


\* POST /api/auth/create-profile from its existence check to its response,
\* run against the table without interruption and without store failure:
\* with the existence check, or with the check removed (the handler goes on
\* to the role validation and the insert as if no row had been found)
RouteFromSelect(call, table, precheck) ==
    LET existing == precheck /\ StoreSelect(table, call.req.userId, "")
        checked == RouteAfterSelect(call, existing)
        ins == StoreInsert(table, ReqRow(call.req), "")
    IN  IF checked.pc = "done"
            THEN [resp |-> checked.resp, table |-> table]
            ELSE [resp |-> RouteAfterInsert(checked, ins).resp, table |-> ins.table]

\* 2 for 2xx, 4 for 4xx, 5 for 5xx
StatusClass(st) == st \div 100

\* the two responses and tables agree in ok, status class and table
SameOutcome(a, b) ==
    /\ a.resp.ok = b.resp.ok
    /\ StatusClass(a.resp.status) = StatusClass(b.resp.status)
    /\ a.table = b.table

\* C18: the existence pre-check is purely an optimization. For every request
\* that reaches it and every state of the profiles table, POST
\* /api/auth/create-profile with the pre-check produces the same ok value,
\* the same status class and the same resulting table as the handler with
\* the pre-check removed, which relies on insert and conflict handling.
C18_PrecheckIsOptimization ==
    \A c \in CallIds :
        (calls[c].kind = "route" /\ calls[c].pc = "select")
        => SameOutcome(RouteFromSelect(calls[c], profiles, TRUE),
                       RouteFromSelect(calls[c], profiles, FALSE))

\* what holds of the code: the same for requests whose role is valid
PrecheckIsOptimizationForValidRoles ==
    \A c \in CallIds :
        (calls[c].kind = "route" /\ calls[c].pc = "select"
            /\ calls[c].req.role \in ValidRoles)
        => SameOutcome(RouteFromSelect(calls[c], profiles, TRUE),
                       RouteFromSelect(calls[c], profiles, FALSE))


-----------------------------------------------------------------------------
(* Signup: requests, actions, specification *)

EmailChars == {"a", "@", ".", " "}

SeqsUpTo(S, n) == UNION {[1..k -> S] : k \in 0..n}

\* bodies of POST /api/auth/signup: JSON objects with any email of up to
\* MaxEmailLen characters and any password of up to MaxPwLen characters,
\* the JSON value null, and text that is not JSON
SignupBodies(handler) ==
    [bodyKind : {"object"}, email : SeqsUpTo(EmailChars, MaxEmailLen),
     password : SeqsUpTo({"x"}, MaxPwLen),
     fullName : IF handler = "full" THEN {"", "Ann"} ELSE {""},
     role : IF handler = "full" THEN {"", "athlete", "admin"} ELSE {""}]
    \cup {[NoSignupReq EXCEPT !.bodyKind = k] : k \in {"null", "malformed"}}

\* a client posts to /api/auth/signup (the version with profile fields)
StartSignupFull ==
    /\ signup.pc = "idle"
    /\ \E req \in SignupBodies("full") : signup' = SignupBegin(config, "full", req)
    /\ UNCHANGED <<config, profiles, calls, accounts, pageVars>>

\* a client posts to /api/auth/signup (the email and password version)
StartSignupMinimal ==
    /\ signup.pc = "idle"
    /\ \E req \in SignupBodies("minimal") : signup' = SignupBegin(config, "minimal", req)
    /\ UNCHANGED <<config, profiles, calls, accounts, pageVars>>

\* supabase.auth.signUp returns; on success the provider holds a new account
\* with the metadata given
SignUpReturns ==
    /\ signup.pc = "signUp"
    /\ \E outcome \in SignUpOutcomes, errStatus \in ProviderErrorStatuses :
         LET uid == UserIdOf(Cardinality(accounts) + 1)
             registered == \E a \in accounts : a.email = signup.req.email
         IN  /\ outcome \in {"pending", "session"} => ~registered
             /\ outcome # "error" => errStatus = 0
             /\ signup' = SignupAfterProvider(signup, outcome, errStatus, uid)
             /\ accounts' =
                  IF outcome \in {"pending", "session"}
                  THEN accounts \cup {Account(uid, signup.req.email,
                                              signup.req.fullName, signup.req.role)}
                  ELSE accounts
    /\ UNCHANGED <<config, profiles, calls, pageVars>>

\* the signup handlers read the provider URL and the public key
SignupConfigs == {cfg \in Configs : cfg.serviceKey}

InitSignup ==
    /\ config \in SignupConfigs
    /\ profiles = <<>>
    /\ calls = [c \in CallIds |-> IdleCall]
    /\ accounts = {}
    /\ signup = IdleSignup
    /\ NoPage

NextSignup ==
    \/ StartSignupFull
    \/ StartSignupMinimal
    \/ SignUpReturns

SpecSignup == InitSignup /\ [][NextSignup]_vars


-----------------------------------------------------------------------------
(* Properties of signup *)

\* the payload (a JSON value) lacks email or password, or its email is
\* malformed, or its password has fewer than 6 characters
InvalidPayload(req) ==
    /\ req.bodyKind # "malformed"
    /\ \/ req.bodyKind = "null"
       \/ req.email = <<>> \/ req.password = <<>>
       \/ ~EmailMatches(req.email)
       \/ Len(req.password) < MinPasswordLen

\* the payload passes every check of the handler
ValidPayload(handler, req) ==
    /\ req.bodyKind = "object"
    /\ EmailMatches(req.email)
    /\ Len(req.password) >= MinPasswordLen
    /\ handler = "full" => req.fullName # "" /\ req.role \in ValidRoles

\* C3: every signup payload that lacks email or password, or has a malformed
\* email, or a password shorter than 6 characters is answered 400 ok:false
\* without any call to the provider's signUp, and the provider is called only
\* once every validation check has passed.
C3_InvalidSignupRefused ==
    /\ (signup.pc = "done" /\ InvalidPayload(signup.req))
       => /\ signup.resp.status = 400
          /\ ~signup.resp.ok
          /\ signup.providerCalls = 0
    /\ signup.providerCalls > 0 => ValidPayload(signup.handler, signup.req)

\* what holds of the code: the same for payloads that are JSON objects, and
\* no provider call and ok:false for every invalid payload
SignupObjectPayloadsRefused ==
    /\ (signup.pc = "done" /\ InvalidPayload(signup.req))
       => /\ signup.req.bodyKind = "object" => signup.resp.status = 400
          /\ ~signup.resp.ok
          /\ signup.providerCalls = 0
    /\ signup.providerCalls > 0 => ValidPayload(signup.handler, signup.req)

\* C4: for every valid signup payload for which the provider returned a new
\* account, the handler answers 201 ok:true with the account's id and email,
\* and confirmationRequired is true iff the provider returned no session; no
\* other outcome of the provider is answered as created.
C4_ConfirmationRequired ==
    (signup.pc = "done" /\ ValidPayload(signup.handler, signup.req))
    => /\ signup.outcome \in {"pending", "session"}
          => /\ signup.resp.status = 201
             /\ signup.resp.ok
             /\ \E a \in accounts :
                   a.id = signup.resp.userId /\ a.email = signup.req.email
             /\ signup.resp.email = signup.req.email
             /\ signup.resp.confirmationRequired <=> signup.outcome = "pending"
       /\ (signup.resp.ok \/ signup.resp.status = 201)
          => signup.outcome \in {"pending", "session"}

\* a signup with profile fields was answered as created, with a session
C4_Witness ==
    /\ signup.pc = "done" /\ signup.handler = "full"
    /\ signup.outcome = "session"
    /\ signup.resp.status = 201 /\ ~signup.resp.confirmationRequired


\* the body has a well-formed email and a password of 1 to 5 characters
ShortPassword(req) ==
    /\ req.bodyKind = "object" /\ EmailMatches(req.email)
    /\ req.password # <<>> /\ Len(req.password) < MinPasswordLen

MinLengthMessage == "Password must be at least 6 characters long"

\* C17: POST /api/auth/signup with a body that holds only a well-formed email
\* and a password shorter than 6 characters is answered 400 with the message
\* that states the minimum password length.
C17_ShortPasswordScenario ==
    (signup.pc = "done" /\ ShortPassword(signup.req)
        /\ signup.req.fullName = "" /\ signup.req.role = "")
    => /\ signup.resp.status = 400 /\ ~signup.resp.ok
       /\ signup.resp.message = MinLengthMessage

\* what holds of the code: the handler for email and password answers so,
\* and the handler with profile fields does when the body also has a full
\* name and a valid role
ShortPasswordWhenFieldsPresent ==
    (signup.pc = "done" /\ ShortPassword(signup.req)
        /\ (signup.handler = "full" =>
                signup.req.fullName # "" /\ signup.req.role \in ValidRoles))
    => /\ signup.resp.status = 400 /\ ~signup.resp.ok
       /\ signup.resp.message = MinLengthMessage
       /\ signup.providerCalls = 0


-----------------------------------------------------------------------------
(* ConfirmPage: actions and specification *)

\* the URLs the page is opened with: a fragment (tokens present or not, type
\* signup or another), a query string (token_hash and type present or not),
\* and both
PageUrls ==
    [access_token : {"", "bad", "t_u1", "t_u2"}, refresh_token : {"", "r"},
     type : {"signup", "recovery"}, token_hash : {""}, typeParam : {""}]
    \cup [access_token : {""}, refresh_token : {""}, type : {""},
          token_hash : {"", "bad", "h_u1"}, typeParam : {"", "signup"}]
    \cup [access_token : {"t_u1"}, refresh_token : {"", "r"}, type : {"recovery"},
          token_hash : {"h_u1"}, typeParam : {"signup"}]

\* messages of the provider's errors
ProviderMessages == {"", "Token has expired or is invalid"}

\* runs are started in order
FreeRun(r) == runs[r].pc = "idle" /\ \A q \in RunIds : q < r => runs[q].pc # "idle"

\* handleConfirmation up to its first await
RunBegin(u) ==
    IF HasFragmentTokens(u)
        THEN [IdleRun EXCEPT !.pc = "setSession", !.path = "fragment"]
        ELSE [IdleRun EXCEPT !.pc = "verifyOtp", !.path = "query"]

\* the confirmation effect runs: on mount, and again when searchParams
\* changes (or twice on mount under React's strict mode)
ConfirmEffect(r) ==
    /\ mounted /\ FreeRun(r)
    /\ IF HasFragmentTokens(url) \/ HasQueryTokens(url)
          THEN /\ runs' = [runs EXCEPT ![r] = RunBegin(url)]
               /\ UNCHANGED <<status, errorMessage, redirectIn, timers>>
          ELSE RunThrows(r, [IdleRun EXCEPT !.path = "none"], "Missing confirmation tokens")
    /\ UNCHANGED <<config, profiles, calls, signupVars, url, mounted, now, redirects>>

\* router changes while the countdown runs: both effects run again, the
\* countdown's cleanup first
RouterChange(r) ==
    /\ mounted /\ FreeRun(r) /\ status = "success"
    /\ HasFragmentTokens(url) \/ HasQueryTokens(url)
    /\ runs' = [runs EXCEPT ![r] = RunBegin(url)]
    /\ CountdownEffect(status)
    /\ UNCHANGED <<config, profiles, calls, signupVars, url, mounted, status,
                   errorMessage, now, redirects>>

\* supabase.auth.setSession returns
RunSetSession(r) ==
    /\ runs[r].pc = "setSession"
    /\ \E outcome \in {"ok", "error", "nouser"}, msg \in ProviderMessages :
         /\ outcome = "ok" => TokenUser(url.access_token) # ""
         /\ outcome # "error" => msg = ""
         /\ LET run == [runs[r] EXCEPT !.provider = outcome] IN
            IF outcome = "ok"
                THEN /\ runs' = [runs EXCEPT ![r] =
                            [run EXCEPT !.pc = "fetch", !.user = TokenUser(url.access_token)]]
                     /\ UNCHANGED <<status, errorMessage, redirectIn, timers>>
            ELSE IF outcome = "error"
                THEN RunThrows(r, run, msg)
            ELSE RunThrows(r, run, "User not found after setting session")
    /\ UNCHANGED <<config, profiles, calls, signupVars, url, mounted, now, redirects>>

\* supabase.auth.verifyOtp returns
RunVerifyOtp(r) ==
    /\ runs[r].pc = "verifyOtp"
    /\ \E outcome \in {"ok", "error", "nouser"}, msg \in ProviderMessages :
         /\ outcome = "ok" => HashUser(url.token_hash) # ""
         /\ outcome # "error" => msg = ""
         /\ LET run == [runs[r] EXCEPT !.provider = outcome] IN
            IF outcome = "ok"
                THEN /\ runs' = [runs EXCEPT ![r] =
                            [run EXCEPT !.pc = "fetch", !.user = HashUser(url.token_hash)]]
                     /\ UNCHANGED <<status, errorMessage, redirectIn, timers>>
            ELSE IF outcome = "error"
                THEN RunThrows(r, run, msg)
            ELSE RunThrows(r, run, "User not found after confirmation")
    /\ UNCHANGED <<config, profiles, calls, signupVars, url, mounted, now, redirects>>

\* fetch("/api/auth/create-profile"): the fetch rejects, or the request
\* reaches the route, or a gateway in front of the route answers it
RunFetch(r) ==
    /\ runs[r].pc = "fetch"
    /\ \/ /\ RunThrows(r, [runs[r] EXCEPT !.fetch = "rejected"], "Failed to fetch")
          /\ UNCHANGED calls
       \/ \E c \in CallIds :
            LET acct == CHOOSE a \in accounts : a.id = runs[r].user IN
            /\ Free(c)
            /\ calls' = [calls EXCEPT ![c] = RouteBegin(config, ProfileRequest(runs[r], acct))]
            /\ runs' = [runs EXCEPT ![r] =
                          [@ EXCEPT !.pc = "await", !.fetch = "route", !.call = c]]
            /\ UNCHANGED <<status, errorMessage, redirectIn, timers>>
       \/ /\ runs' = [runs EXCEPT ![r] = [@ EXCEPT !.pc = "await", !.fetch = "gateway"]]
          /\ UNCHANGED <<calls, status, errorMessage, redirectIn, timers>>
    /\ UNCHANGED <<config, profiles, signupVars, url, mounted, now, redirects>>

\* the response a run is waiting for, once it is there
ResponseOf(run) ==
    IF run.fetch = "route"
        THEN Response(calls[run.call].resp.status, TRUE)
        ELSE Response(502, FALSE)

\* the response arrives: handleConfirmation from `await fetch` to its end
RunResponse(r) ==
    /\ runs[r].pc = "await"
    /\ runs[r].fetch = "route" => calls[runs[r].call].pc = "done"
    /\ IF ResponseThrows(runs[r].path, ResponseOf(runs[r]))
          THEN RunThrows(r, runs[r], "Unexpected token < in JSON")
          ELSE /\ runs' = [runs EXCEPT ![r] =
                            [@ EXCEPT !.pc = "done", !.result = "success"]]
               /\ SetStatus("success", "")
    /\ UNCHANGED <<config, profiles, calls, signupVars, url, mounted, now, redirects>>

\* time passes, step ms at a time, once a countdown was started
AdvanceTime(step) ==
    /\ status = "success"
    /\ now < MaxTicks * step
    /\ now' = now + step
    /\ UNCHANGED <<config, profiles, calls, signupVars, url, mounted, status,
                   errorMessage, redirectIn, runs, timers, redirects>>

\* the setTimeout callback: router.replace(REDIRECT_TO)
TimeoutFires ==
    /\ timers.timeoutId
    /\ now - timers.startedAt >= REDIRECT_DELAY_MS
    /\ timers' = [timers EXCEPT !.timeoutId = FALSE]
    /\ redirects' = [redirects EXCEPT !.timer = @ + 1]
    /\ UNCHANGED <<config, profiles, calls, signupVars, url, mounted, status,
                   errorMessage, redirectIn, runs, now>>

\* the setInterval callback: setRedirectIn(Math.ceil(remainingMs / 1000)); a
\* state update of an unmounted component is dropped
IntervalFires ==
    /\ timers.intervalId
    /\ now - timers.startedAt >= TickMs
    /\ LET elapsed == now - timers.startedAt
           remainingMs == Max(0, REDIRECT_DELAY_MS - elapsed)
       IN  redirectIn' = IF mounted THEN CeilDiv(remainingMs, 1000) ELSE redirectIn
    /\ UNCHANGED <<config, profiles, calls, signupVars, url, mounted, status,
                   errorMessage, runs, timers, now, redirects>>

\* the "Continue to login" button: router.replace(REDIRECT_TO)
ManualContinue ==
    /\ mounted /\ status = "success"
    /\ redirects.manual < MaxClicks
    /\ redirects' = [redirects EXCEPT !.manual = @ + 1]
    /\ UNCHANGED <<config, profiles, calls, signupVars, url, mounted, status,
                   errorMessage, redirectIn, runs, timers, now>>

\* the component is torn down: the countdown effect's cleanup clears both timers
Unmount ==
    /\ mounted
    /\ mounted' = FALSE
    /\ timers' = Cleanup(timers)
    /\ UNCHANGED <<config, profiles, calls, signupVars, url, status,
                   errorMessage, redirectIn, runs, now, redirects>>

InitConfirm ==
    /\ config = FullConfig
    /\ profiles = <<>>
    /\ calls = [c \in CallIds |-> IdleCall]
    /\ accounts = Population
    /\ signup = IdleSignup
    /\ mounted = TRUE
    /\ \E u \in PageUrls : PageAt(u)

NextConfirm ==
    \/ \E r \in RunIds :
        \/ ConfirmEffect(r)
        \/ RouterChange(r)
        \/ RunSetSession(r)
        \/ RunVerifyOtp(r)
        \/ RunFetch(r)
        \/ RunResponse(r)
    \/ \E c \in CallIds :
        \/ RouteGetUser(c)
        \/ RouteSelect(c)
        \/ RouteInsert(c)
    \/ Unmount

\* the page and the route it calls, the clock standing still
SpecConfirm == InitConfirm /\ [][NextConfirm]_vars

\* pages whose create-profile request the route answers before it calls the
\* provider: the query-string path sends no bearer token (401), and the
\* account of u2 lacks a full name (400)
CountdownUrls ==
    {u \in PageUrls :
        /\ u.access_token \in {"", "t_u2"}
        /\ u.access_token = "t_u2" => u.token_hash = ""
        /\ u.token_hash \in {"", "h_u1"}}

InitCountdown ==
    /\ config = FullConfig
    /\ profiles = <<>>
    /\ calls = [c \in CallIds |-> IdleCall]
    /\ accounts = Population
    /\ signup = IdleSignup
    /\ mounted = TRUE
    /\ \E u \in CountdownUrls : PageAt(u)

NextCountdown ==
    \/ \E r \in RunIds :
        \/ ConfirmEffect(r)
        \/ RouterChange(r)
        \/ RunSetSession(r)
        \/ RunVerifyOtp(r)
        \/ RunFetch(r)
        \/ RunResponse(r)
    \/ AdvanceTime(TickMs)
    \/ TimeoutFires
    \/ IntervalFires
    \/ ManualContinue
    \/ Unmount

\* the page with its countdown, the clock running
SpecCountdown == InitCountdown /\ [][NextCountdown]_vars


-----------------------------------------------------------------------------
(* Properties of ConfirmPage *)

Started(r) == runs[r].pc # "idle"

Finished(r) == runs[r].pc = "done"

\* the account's metadata has a full name, a valid role and an email
AccountComplete(uid) ==
    \E a \in accounts :
        a.id = uid /\ a.fullName # "" /\ a.role \in ValidRoles /\ a.email # <<>>

\* the provider refused a token it had issued, or the store failed
EnvironmentFailed(call) ==
    \/ StoreFailed(call)
    \/ call.resp.message = "Invalid authentication token" /\ TokenUser(call.req.token) # ""

\* the run's create-profile request reached the route, which met no failure
\* of provider or store
RouteAnswered(run) ==
    run.fetch = "route" /\ calls[run.call].pc = "done" /\ ~EnvironmentFailed(calls[run.call])

\* C7: end-to-end materialization. For an account with complete metadata,
\* provider and store available and no prior row, whenever a run of the
\* orchestrator reaches success, by the fragment path or by the query-string
\* path, profile creation was invoked with the confirmed user id and a
\* profile row for that user id exists.
C7_ProfileMaterialized ==
    \A r \in RunIds :
        (runs[r].result = "success" /\ AccountComplete(runs[r].user)
            /\ RouteAnswered(runs[r]))
        => /\ calls[runs[r].call].req.userId = runs[r].user
           /\ RowsFor(profiles, runs[r].user) # {}

\* what holds of the code: the same on the fragment path alone
FragmentPathMaterialized ==
    \A r \in RunIds :
        (runs[r].result = "success" /\ AccountComplete(runs[r].user)
            /\ RouteAnswered(runs[r]) /\ runs[r].path = "fragment")
        => /\ calls[runs[r].call].req.userId = runs[r].user
           /\ RowsFor(profiles, runs[r].user) # {}

\* C8: with access and refresh tokens and type=signup in the URL fragment,
\* every run of the orchestrator takes the fragment path, and once
\* setSession has returned a user and the create-profile request a response
\* - of whatever status - the run ends by setting success; the page then
\* shows success when every run has ended so.
C8_FragmentEndsInSuccess ==
    (url.access_token # "" /\ url.refresh_token # "" /\ url.type = "signup")
    => /\ \A r \in RunIds :
            /\ Started(r) => runs[r].path = "fragment"
            /\ (Finished(r) /\ runs[r].provider = "ok"
                    /\ runs[r].fetch \in {"route", "gateway"})
               => runs[r].result = "success"
       /\ (mounted /\ (\E r \in RunIds : Started(r))
              /\ \A r \in RunIds :
                    Started(r) => /\ Finished(r)
                                  /\ runs[r].provider = "ok"
                                  /\ runs[r].fetch \in {"route", "gateway"})
          => status = "success"

\* a fragment-token run ended in success although the route refused its
\* create-profile request, and the page shows success
C8_Witness ==
    /\ mounted /\ status = "success"
    /\ \E r \in RunIds :
        /\ Finished(r) /\ runs[r].path = "fragment" /\ runs[r].result = "success"
        /\ runs[r].fetch = "route"
        /\ calls[runs[r].call].resp.status = 400

\* C9 (its safety half): over any sequence of timer firings, effect
\* re-executions and manual "continue" actions, router.replace("/login") is
\* called at most once.
C9_AtMostOneRedirect == redirects.timer + redirects.manual <= 1

\* what holds of the code: one countdown is pending at a time and starts
\* only in success, and the timer redirects only once the delay has elapsed
CountdownWellFormed ==
    /\ timers.timeoutId => status = "success" /\ mounted /\ timers.intervalId
    /\ timers.intervalId => status = "success" /\ mounted
    /\ redirects.timer > 0 => now >= REDIRECT_DELAY_MS
    /\ redirectIn \in 0..3

\* C10: when the URL has neither a fragment access/refresh token pair with
\* type=signup nor a query-string token_hash together with type, every run
\* ends in error with "Missing confirmation tokens" without a call to the
\* provider or to profile creation, and the page shows that error.
C10_MissingTokens ==
    (/\ ~(url.access_token # "" /\ url.refresh_token # "" /\ url.type = "signup")
     /\ ~(url.token_hash # "" /\ url.typeParam # ""))
    => /\ \A r \in RunIds :
            Started(r) =>
                /\ Finished(r) /\ runs[r].result = "error"
                /\ runs[r].message = "Missing confirmation tokens"
                /\ runs[r].provider = "" /\ runs[r].fetch = "" /\ runs[r].call = 0
       /\ \A c \in CallIds : calls[c] = IdleCall
       /\ (\E r \in RunIds : Started(r))
          => status = "error" /\ errorMessage = "Missing confirmation tokens"

\* the page was opened with fragment tokens of type recovery and no query
\* string, and shows the error
C10_Witness ==
    /\ url.access_token # "" /\ url.type = "recovery"
    /\ status = "error" /\ errorMessage = "Missing confirmation tokens"
    /\ runs[1].pc = "done"

\* the run got a response to its create-profile request, and it was not OK
GotNonOkResponse(r) ==
    /\ Finished(r) /\ runs[r].fetch \in {"route", "gateway"}
    /\ ~ResponseOk(ResponseOf(runs[r]))

\* C11: on the fragment path and on the query-string path, a response of the
\* profile-creation call that is not OK - whatever its status and body - does
\* not make the run set error: the run sets success.
C11_NonOkStillSuccess ==
    \A r \in RunIds : GotNonOkResponse(r) => runs[r].result = "success"

\* what holds of the code: the same on the fragment path, and on the
\* query-string path for a response whose body is JSON
NonOkJsonStillSuccess ==
    \A r \in RunIds :
        (GotNonOkResponse(r)
            /\ (runs[r].path = "fragment" \/ ResponseOf(runs[r]).json))
        => runs[r].result = "success"

\* C13: both countdown timers are cancelled when the component is torn down
\* before they fire: once unmounted neither the timeout nor the interval is
\* pending, no redirect is made by the timer and no tick changes the seconds
\* shown, however much time passes.
C13_TimersCancelledOnTeardown ==
    /\ [](~mounted => ~timers.timeoutId /\ ~timers.intervalId)
    /\ [][~mounted => /\ redirects'.timer = redirects.timer
                      /\ redirectIn' = redirectIn]_vars

\* the component was torn down during the countdown, the delay has since
\* elapsed, and no redirect was made
C13_Witness ==
    /\ ~mounted /\ status = "success"
    /\ now >= REDIRECT_DELAY_MS
    /\ redirects.timer = 0 /\ redirects.manual = 0
    /\ redirectIn > 0

\* C15: the status starts at loading, its only transitions are loading ->
\* success and loading -> error, and success and error are terminal: once
\* the status has left loading no execution of the confirmation effect, timer
\* or user action changes it again.
C15_StatusTerminal ==
    /\ [](status \in {"loading", "success", "error"})
    /\ [][status # "loading" => status' = status]_vars

\* what holds of the code: the status is the result of the run that ended
\* last while the component was mounted, so it is terminal when the
\* confirmation effect runs once
StatusOfSingleRun ==
    (Finished(1) /\ ~Started(2) /\ mounted) => status = runs[1].result

\* session establishment or token verification failed in the run
ProviderFailed(run) == run.provider \in {"error", "nouser"}

\* the run met a failure of the provider, or its fetch was rejected
RunFailed(run) == ProviderFailed(run) \/ run.fetch = "rejected"

\* C20: any failure of session establishment (setSession error or no user),
\* of token verification (verifyOtp error or no user) or an unreachable
\* profile-creation call (fetch rejects) ends the run in error, the page
\* showing at that step the error state with the failure's message, or
\* "Failed to confirm email" when the failure has no message; after a
\* session or verification failure no profile-creation call is made.
C20_FailuresLeadToError ==
    /\ [](\A r \in RunIds :
            /\ (Finished(r) /\ RunFailed(runs[r]))
               => /\ runs[r].result = "error"
                  /\ runs[r].message = IF runs[r].thrown = ""
                                          THEN "Failed to confirm email"
                                          ELSE runs[r].thrown
            /\ ProviderFailed(runs[r]) => runs[r].fetch = "" /\ runs[r].call = 0)
    /\ [][\A r \in RunIds :
            (~Finished(r) /\ Finished(r)' /\ RunFailed(runs'[r]) /\ mounted)
            => status' = "error" /\ errorMessage' = runs'[r].message]_vars

\* setSession failed with an error that has no message, no request was sent,
\* and the page shows the error state with the fallback message
C20_Witness ==
    /\ mounted /\ status = "error" /\ errorMessage = "Failed to confirm email"
    /\ \E r \in RunIds :
        /\ Finished(r) /\ runs[r].path = "fragment" /\ runs[r].provider = "error"
        /\ runs[r].thrown = "" /\ runs[r].fetch = ""
    /\ \A c \in CallIds : calls[c] = IdleCall


-----------------------------------------------------------------------------
(* GET /api/auth/confirm, and the flow from signup to the profile row *)

\* NextResponse.redirect(new URL("/", request.url)): the redirect when the
\* link has no redirect_to
RedirectResp == [status |-> 307, ok |-> FALSE, user_id |-> "", message |-> "",
                 code |-> "", location |-> "/"]

\* values of redirect_to: none, a path, and an absolute URL without a host
RedirectTargets == {"", "/welcome", "http://"}

\* searchParams.get("redirect_to") || "/"
RedirectTo(params) == IF params.redirect_to = "" THEN "/" ELSE params.redirect_to

\* new URL(target, request.url) returns a URL: a path resolves against the
\* request's URL; "http://" has an empty host, for which the constructor
\* throws a TypeError
UrlParses(target) == target # "http://"

\* the last statement of the try block of GET confirm: the redirect, or the
\* catch when the URL constructor throws
ConfirmRedirect(params) ==
    IF UrlParses(RedirectTo(params))
        THEN [RedirectResp EXCEPT !.location = RedirectTo(params)]
        ELSE ErrResp(500, "Internal server error during confirmation", "")

\* GET /api/auth/confirm up to auth.verifyOtp
ConfirmBegin(cfg, params) ==
    LET call == [IdleCall EXCEPT !.kind = "confirm", !.params = params] IN
    IF params.token_hash = "" \/ params.type = ""
        THEN Finish(call, ErrResp(400, "Missing token_hash or type parameter", ""))
    ELSE IF ~cfg.url \/ ~cfg.anonKey
        THEN Finish(call, ErrResp(500, "Supabase configuration missing", ""))
    ELSE [call EXCEPT !.pc = "verifyOtp"]

\* GET /api/auth/confirm: the result of auth.verifyOtp
ConfirmAfterVerifyOtp(call, outcome, user) ==
    IF outcome = "error"
        THEN Finish(call, ErrResp(400, "Token has expired or is invalid", "403"))
    ELSE IF outcome = "nouser"
        THEN Finish(call, ErrResp(400, "User not found after confirmation", ""))
    ELSE IF outcome = "throws"
        THEN Finish(call, ErrResp(500, "Internal server error during confirmation", ""))
    ELSE [call EXCEPT !.authUser = user, !.pc = "select"]

\* from("profiles").select("id").eq("id", uid).single(): the table has the
\* columns user_id, fullName, email and role and no column id, so the store
\* answers with an error and no data
StoreSelectById(table, uid) == FALSE

\* the arguments of createProfile(data.user.id, {fullName, role, email})
ConfirmProfileArgs(acct) ==
    [NoReq EXCEPT !.userId = acct.id, !.fullName = acct.fullName,
                  !.role = acct.role, !.email = acct.email]

\* GET /api/auth/confirm: the existence check, and createProfile up to its
\* insert; the handler redirects whatever createProfile returns
ConfirmAfterSelect(cfg, call, existing, acct) ==
    LET c == [call EXCEPT !.ops = @ \cup {"select"}]
        svc == ServiceBegin(cfg, ConfirmProfileArgs(acct))
    IN  IF existing
            THEN Finish(c, ConfirmRedirect(c.params))
        ELSE IF svc.pc = "done"
            THEN Finish([c EXCEPT !.req = svc.req, !.svc = svc.resp],
                        ConfirmRedirect(c.params))
        ELSE [c EXCEPT !.req = svc.req, !.pc = "insert"]

\* GET /api/auth/confirm: createProfile's insert returns
ConfirmAfterInsert(call, ins) ==
    LET svc == ServiceAfterInsert(call, ins) IN
    Finish([svc EXCEPT !.svc = svc.resp], ConfirmRedirect(call.params))

\* the query parameters a confirmation link is followed with
ConfirmParams ==
    [token_hash : {"", "bad", "h_u1", "h_u2"}, type : {"", "signup"}, redirect_to : {""}]

\* a client follows a link to /api/auth/confirm
StartConfirm(c) ==
    /\ Free(c)
    /\ \E params \in ConfirmParams :
         calls' = [calls EXCEPT ![c] = ConfirmBegin(config, params)]
    /\ UNCHANGED <<config, profiles, signupVars, pageVars>>

\* auth.verifyOtp returns: the user of the token hash, an error, no user, or
\* it throws
ConfirmVerifyOtp(c) ==
    /\ calls[c].kind = "confirm" /\ calls[c].pc = "verifyOtp"
    /\ \E outcome \in {"ok", "error", "nouser", "throws"} :
         LET user == ProviderUser(HashUser(calls[c].params.token_hash)) IN
         /\ outcome = "ok" => user # ""
         /\ calls' = [calls EXCEPT ![c] =
                ConfirmAfterVerifyOtp(Logged(calls[c], "verifyOtp", outcome = "ok"),
                                      outcome, user)]
    /\ UNCHANGED <<config, profiles, signupVars, pageVars>>

\* the existence check of GET confirm returns
ConfirmSelect(c) ==
    /\ calls[c].kind = "confirm" /\ calls[c].pc = "select"
    /\ LET acct == CHOOSE a \in accounts : a.id = calls[c].authUser IN
       calls' = [calls EXCEPT ![c] =
            ConfirmAfterSelect(config, calls[c],
                               StoreSelectById(profiles, calls[c].authUser), acct)]
    /\ UNCHANGED <<config, profiles, signupVars, pageVars>>

\* the insert of the createProfile that GET confirm called returns
ConfirmInsert(c) ==
    /\ calls[c].kind = "confirm" /\ calls[c].pc = "insert"
    /\ \E fault \in StoreFaults :
         LET ins == StoreInsert(profiles, ReqRow(calls[c].req), fault) IN
         /\ profiles' = ins.table
         /\ calls' = [calls EXCEPT ![c] =
                ConfirmAfterInsert(Logged(calls[c], "insert", fault = ""), ins)]
    /\ UNCHANGED <<config, signupVars, pageVars>>

Pw6 == [k \in 1..MinPasswordLen |-> "x"]

\* signup requests of the flow: a valid one with profile fields, one with a
\* role that is not valid, and a valid one with email and password only
FlowSignupBodies(handler) ==
    IF handler = "full"
        THEN {[bodyKind |-> "object", email |-> Email1, password |-> Pw6,
               fullName |-> "Ann", role |-> r] : r \in {"athlete", "admin"}}
        ELSE {[NoSignupReq EXCEPT !.email = Email1, !.password = Pw6]}

\* a client posts to /api/auth/signup, in either version
FlowSignup ==
    /\ signup.pc = "idle"
    /\ \E handler \in {"full", "minimal"} :
         \E req \in FlowSignupBodies(handler) :
            signup' = SignupBegin(config, handler, req)
    /\ UNCHANGED <<config, profiles, calls, accounts, pageVars>>

\* create-profile requests of the flow: complete bodies for either user id
\* with any Authorization header
FlowRouteRequests ==
    [token : Tokens, bodyKind : {"object"}, userId : Users,
     fullName : {"Ann"}, role : {"athlete"}, email : {Email1}]

\* a client posts to /api/auth/create-profile
FlowRoute(c) ==
    /\ Free(c)
    /\ \E req \in FlowRouteRequests :
         calls' = [calls EXCEPT ![c] = RouteBegin(config, req)]
    /\ UNCHANGED <<config, profiles, signupVars, pageVars>>

\* before the first signup: no account, no profile row
InitFlow ==
    /\ config = FullConfig
    /\ profiles = <<>>
    /\ calls = [c \in CallIds |-> IdleCall]
    /\ accounts = {}
    /\ signup = IdleSignup
    /\ NoPage

NextFlow ==
    \/ FlowSignup
    \/ SignUpReturns
    \/ \E c \in CallIds :
        \/ StartConfirm(c)
        \/ ConfirmVerifyOtp(c)
        \/ ConfirmSelect(c)
        \/ ConfirmInsert(c)
        \/ FlowRoute(c)
        \/ RouteGetUser(c)
        \/ RouteSelect(c)
        \/ RouteInsert(c)

\* signup, the confirmation link and profile creation against one provider
\* and one store
SpecFlow == InitFlow /\ [][NextFlow]_vars

\* C16: the account is created before the profile. Signup never writes to
\* the profiles table (the metadata is stored on the account only), and in
\* every reachable state every profile row's user id is the id of an account
\* that signup created before.
C16_AccountBeforeProfile ==
    /\ [](\A i \in 1..Len(profiles) :
            \E a \in accounts : a.id = profiles[i].user_id)
    /\ [][signup' # signup => profiles' = profiles]_vars

\* signup created the account of u1 with its metadata, and the confirmation
\* link then inserted the profile row from that metadata
C16_Witness ==
    /\ signup.pc = "done" /\ signup.resp.ok
    /\ \E a \in accounts : a.id = "u1" /\ a.fullName = "Ann"
    /\ \E c \in CallIds :
        /\ calls[c].kind = "confirm" /\ calls[c].created
        /\ calls[c].resp = RedirectResp
    /\ Len(profiles) = 1 /\ profiles[1].user_id = "u1"


\* no external call appears twice in the log
NoRepeat(log) == \A i, j \in 1..Len(log) : i # j => log[i] # log[j]

\* the invocation ended with a failure outcome: ok:false, and for a handler
\* an error status
FailureOutcome(call) ==
    /\ ~call.resp.ok
    /\ call.kind \in {"route", "confirm"} => call.resp.status \in ErrorStatuses

\* signUp() calls the provider at most once and a failure of the provider
\* is answered ok:false
SignupNoRetry ==
    /\ signup.providerCalls <= 1
    /\ (signup.pc = "done" /\ signup.outcome \in {"error", "nouser"})
       => ~signup.resp.ok /\ signup.resp.status \in ErrorStatuses

\* a run of the confirmation page calls setSession or verifyOtp and fetch at
\* most once, and ends in error when one of them failed
RunNoRetry ==
    \A r \in RunIds :
        (Finished(r) /\ (runs[r].provider \in {"error", "nouser"}
                            \/ runs[r].fetch = "rejected"))
        => runs[r].result = "error"

\* C19: no retry, and failures surface on first occurrence. Within one
\* handler invocation or one run of the confirmation page each external
\* operation (signUp, verifyOtp, setSession, getUser, the profile insert, the
\* create-profile fetch) is invoked at most once, and when one of them failed
\* the invocation ends with a failure outcome to its caller (an ok:false
\* response, the error state), not with a success outcome.
C19_NoRetryFailuresSurface ==
    /\ SignupNoRetry
    /\ RunNoRetry
    /\ \A c \in CallIds :
        /\ NoRepeat(calls[c].log)
        /\ (Done(c) /\ calls[c].failed # {}) => FailureOutcome(calls[c])

\* what holds of the code: the same, but for a failed insert of the
\* createProfile that GET confirm calls
NoRetryButConfirmInsert ==
    /\ SignupNoRetry
    /\ RunNoRetry
    /\ \A c \in CallIds :
        /\ NoRepeat(calls[c].log)
        /\ (Done(c) /\ calls[c].failed # {}
                /\ ~(calls[c].kind = "confirm" /\ calls[c].failed = {"insert"}))
           => FailureOutcome(calls[c])


-----------------------------------------------------------------------------
(* Properties of the handlers' responses *)

\* messages of the field-validation errors of the handlers
FieldValidationMessages ==
    {"Email, password, fullName, and role are required",
     "Email and password are required",
     "Invalid role. Must be one of: athlete, coach, organization",
     "Invalid email format",
     "Password must be at least 6 characters long",
     "userId, fullName, role, and email are required",
     "Invalid role"}

\* the signup handler answered a body that is not JSON with 400 and the
\* invalid-body message
SignupMalformedIs400 ==
    (signup.pc = "done" /\ signup.req.bodyKind = "malformed")
    => /\ signup.resp.status = 400 /\ ~signup.resp.ok
       /\ signup.resp.message = "Invalid JSON in request body"
       /\ signup.providerCalls = 0

\* C12: every handler that reads a request body - the two signup handlers
\* and POST /api/auth/create-profile (which reads it once the bearer token is
\* there) - answers a body that is not JSON with 400 and an invalid-body
\* message, which is neither a field-validation error nor the 500 internal
\* error.
C12_MalformedBodyIs400 ==
    /\ SignupMalformedIs400
    /\ \A c \in CallIds :
         (Done(c) /\ calls[c].kind = "route" /\ calls[c].req.token # ""
             /\ calls[c].req.bodyKind = "malformed")
         => /\ calls[c].resp.status = 400 /\ ~calls[c].resp.ok
            /\ calls[c].resp.message \notin FieldValidationMessages
            /\ calls[c].resp.message # "Internal server error"

\* the signup handler's response is {ok: true, data} with a success status
\* or {ok: false, error: {message}} with an error status
SignupEnvelope ==
    signup.pc = "done" =>
        IF signup.resp.ok
            THEN signup.resp.status \in SuccessStatuses /\ signup.resp.userId # ""
            ELSE signup.resp.status \in ErrorStatuses /\ signup.resp.message # ""

\* the same of the responses of POST /api/auth/create-profile
RouteEnvelope ==
    \A c \in CallIds :
        (Done(c) /\ calls[c].kind = "route") =>
            IF calls[c].resp.ok
                THEN calls[c].resp.status \in SuccessStatuses /\ calls[c].resp.user_id # ""
                ELSE calls[c].resp.status \in ErrorStatuses /\ calls[c].resp.message # ""

-----------------------------------------------------------------------------
(* Store failures, missing configuration *)

\* C21: a store failure other than the conflict is a creation failure. When
\* the insert of createProfile or of POST /api/auth/create-profile is answered
\* with a store error other than 23505, the invocation ends at that step with
\* ok:false and the store's code as error.code (the route with status 500),
\* and the profiles table is as it was.
C21_StoreFailureReported ==
    [][\A c \in CallIds :
         (calls[c].kind \in {"service", "route"} /\ calls[c].pc = "insert"
             /\ "insert" \in calls'[c].failed)
         => /\ profiles' = profiles
            /\ calls'[c].pc = "done"
            /\ ~calls'[c].resp.ok
            /\ ~calls'[c].created
            /\ calls'[c].resp.code \in StoreFaults \ {"", "23505"}
            /\ (calls[c].kind = "route" => calls'[c].resp.status = 500)]_vars

\* createProfile and the route each had an insert refused with 42501 while
\* the table was empty, and it still is
C21_Witness ==
    /\ \E c, d \in CallIds :
        /\ calls[c].kind = "service" /\ calls[d].kind = "route"
        /\ Done(c) /\ Done(d)
        /\ calls[c].failed = {"insert"} /\ calls[d].failed = {"insert"}
        /\ calls[c].resp = ErrResp(0, "Failed to create profile.", "42501")
        /\ calls[d].resp = ErrResp(500, "Failed to create profile", "42501")
    /\ profiles = <<>>

\* C22: missing configuration is a server error, not a validation error.
\* Whenever the provider URL or the public key is absent, every completed
\* signup made no provider call and was answered with a server-class failure
\* (status 500, ok:false), never with a 400 and never with a success.
C22_MissingConfigIsServerError ==
    (signup.pc = "done" /\ ~isSupabaseConfigured(config))
    => /\ signup.providerCalls = 0
       /\ ~signup.resp.ok
       /\ signup.resp.status = 500

\* what holds of the code: without configuration no provider call is made
\* and no signup succeeds, and a payload that passes the handler's
\* validation is answered 500 with the message of signUp()
MissingConfigAfterValidation ==
    ~isSupabaseConfigured(config)
    => /\ signup.providerCalls = 0
       /\ signup.pc \in {"idle", "done"}
       /\ ~signup.resp.ok
       /\ (signup.pc = "done" /\ ValidPayload(signup.handler, signup.req))
          => signup.resp = SignupErr(500, NotConfiguredMsg)
       /\ (signup.pc = "done" /\ ~ValidPayload(signup.handler, signup.req))
          => signup.resp = SignupValidation(signup.handler, signup.req)


-----------------------------------------------------------------------------
(* GET /api/auth/confirm with any configuration and any redirect_to *)

\* the query parameters of a confirmation link, redirect_to included
LinkParams ==
    [token_hash : {"", "bad", "h_u1", "h_u2"}, type : {"", "signup"},
     redirect_to : RedirectTargets]

\* a client follows a link to /api/auth/confirm
FollowLink(c) ==
    /\ Free(c)
    /\ \E params \in LinkParams :
         calls' = [calls EXCEPT ![c] = ConfirmBegin(config, params)]
    /\ UNCHANGED <<config, profiles, signupVars, pageVars>>

\* any configuration; the provider holds the accounts of u1 and u2
InitLink ==
    /\ config \in Configs
    /\ profiles = <<>>
    /\ calls = [c \in CallIds |-> IdleCall]
    /\ accounts = Population
    /\ signup = IdleSignup
    /\ NoPage

NextLink ==
    \E c \in CallIds :
        \/ FollowLink(c)
        \/ ConfirmVerifyOtp(c)
        \/ ConfirmSelect(c)
        \/ ConfirmInsert(c)

SpecLink == InitLink /\ [][NextLink]_vars

\* token_hash and type are present, the configuration is present, and
\* verifyOtp succeeded and returned a user
Verified(call) ==
    /\ call.params.token_hash # "" /\ call.params.type # ""
    /\ config.url /\ config.anonKey
    /\ call.authUser # ""

\* the JSON errors of GET confirm: 400 for missing parameters, a
\* verification failure or a missing user, 500 for missing configuration or
\* an exception
ConfirmJsonError(call) ==
    /\ ~call.resp.ok /\ call.resp.location = "" /\ call.resp.message # ""
    /\ IF call.params.token_hash = "" \/ call.params.type = ""
         THEN call.resp.status = 400
       ELSE IF ~config.url \/ ~config.anonKey
         THEN call.resp.status = 500
       ELSE call.resp.status \in {400, 500}

\* C23: GET /api/auth/confirm answers with a redirect to redirect_to
\* (default "/") if and only if token_hash and type are present, the
\* configuration is present and the verification succeeded and returned a
\* user; in every other case it answers with a JSON ok:false error, 400 or
\* 500; and verifyOtp is never called when token_hash or type is missing.
C23_RedirectIffVerified ==
    \A c \in CallIds :
        calls[c].kind = "confirm" =>
            /\ Done(c) =>
                 IF Verified(calls[c])
                    THEN /\ calls[c].resp.status = 307
                         /\ calls[c].resp.location = RedirectTo(calls[c].params)
                    ELSE ConfirmJsonError(calls[c])
            /\ (calls[c].params.token_hash = "" \/ calls[c].params.type = "")
               => calls[c].log = <<>>

\* what holds of the code: the same when redirect_to is a URL the
\* constructor accepts; otherwise the verified link is answered with the
\* 500 of the catch
RedirectIffVerifiedAndUrlParses ==
    \A c \in CallIds :
        calls[c].kind = "confirm" =>
            /\ Done(c) =>
                 IF Verified(calls[c]) /\ UrlParses(RedirectTo(calls[c].params))
                    THEN /\ calls[c].resp.status = 307
                         /\ calls[c].resp.location = RedirectTo(calls[c].params)
                    ELSE ConfirmJsonError(calls[c])
            /\ (Done(c) /\ Verified(calls[c])
                    /\ ~UrlParses(RedirectTo(calls[c].params)))
               => calls[c].resp.status = 500
            /\ (calls[c].params.token_hash = "" \/ calls[c].params.type = "")
               => calls[c].log = <<>>


-----------------------------------------------------------------------------
(* Frame of profile creation *)

\* C24: profile creation never modifies an existing row. No step of
\* createProfile or of POST /api/auth/create-profile changes or removes a row
\* the profiles table holds, whatever the fields of the request and whatever
\* response it returns: the table only ever gains a row at its end.
C24_ExistingRowsUnchanged ==
    [][/\ Len(profiles') >= Len(profiles)
       /\ \A i \in 1..Len(profiles) : profiles'[i] = profiles[i]]_vars

\* a user id has the row one invocation created, and a further invocation
\* for it with another fullName, role and email sent its insert, was
\* answered ok:true, and the row has the fields of the first
C24_Witness ==
    \E c, d \in CallIds :
        /\ c # d /\ Done(c) /\ Done(d)
        /\ calls[c].req.userId = calls[d].req.userId
        /\ calls[c].created /\ ~calls[d].created
        /\ "insert" \in calls[d].ops /\ calls[d].resp.ok
        /\ calls[c].req.fullName # calls[d].req.fullName
        /\ calls[c].req.role # calls[d].req.role
        /\ calls[c].req.email # calls[d].req.email
        /\ profiles = <<ReqRow(calls[c].req)>>


-----------------------------------------------------------------------------
(* The seconds the countdown shows *)

\* C25: countdown display bounds. While the status is success the seconds
\* shown are an integer in 0..3; a tick of the interval sets them to the
\* least number of whole seconds that covers the time remaining of the 3000
\* ms since the countdown started (none once the delay has elapsed), so
\* within one countdown they never increase and never go below 0, however
\* late a tick fires.
C25_CountdownBounds ==
    /\ [](status = "success" => redirectIn \in 0..3)
    /\ [][(timers.intervalId /\ timers' = timers /\ status' = status
              /\ redirectIn' # redirectIn)
          => LET elapsed == now - timers.startedAt
                 remaining == IF elapsed >= REDIRECT_DELAY_MS THEN 0
                              ELSE REDIRECT_DELAY_MS - elapsed
             IN  /\ redirectIn' * 1000 >= remaining
                 /\ (redirectIn' - 1) * 1000 < remaining
                 /\ redirectIn' < redirectIn
                 /\ redirectIn' >= 0]_vars

\* the interval is still ticking more than a second after the delay elapsed
\* and the timer redirected, and the page shows 0
C25_Witness ==
    /\ status = "success" /\ mounted /\ timers.intervalId
    /\ now - timers.startedAt >= REDIRECT_DELAY_MS + 1000
    /\ redirects.timer = 1
    /\ redirectIn = 0


=============================================================================
